---- MODULE Spec2Model ----
(***************************************************************************)
(* Smart Alarm backend (src/main.py, src/schemas.py): the lock/challenge   *)
(* lifecycle, over the three document collections alarm, lockevent and    *)
(* taskattempt.  In the specifications Spec, SpecApi, SpecSteps, SpecTime  *)
(* and SpecLog requests are served one at a time, each handler one action; *)
(* in SpecConc requests run concurrently and a step is one operation of    *)
(* the store.                                                              *)
(*                                                                         *)
(* Conventions.                                                            *)
(*   - A Python str is a sequence of one-character strings.                *)
(*   - An Optional[T] value is a set: {} is None, {v} is the value v.      *)
(*   - A datetime is an integer number of minutes; its ISO rendering is    *)
(*     the record [iso |-> t].                                             *)
(*   - A bson ObjectId is the record [oid |-> s], s its 24 hex characters. *)
(***************************************************************************)
EXTENDS Integers, Sequences, FiniteSets, TLC

VARIABLES
    alarm,        \* collection "alarm": sequence of documents
    lockevent,    \* collection "lockevent": sequence of documents
    taskattempt,  \* collection "taskattempt": sequence of documents
    clock,        \* datetime.now(timezone.utc), in minutes
    req,          \* the last request served: [op |-> ..., ...]
    resp,         \* the response to it: [code |-> ..., body |-> ...]
    inflight      \* the requests being served concurrently, by worker

vars == <<alarm, lockevent, taskattempt, clock, req, resp, inflight>>

----------------------------------------------------------------------------
(* Bounds of the model *)

MaxLocks == 2
MaxFailures == 1
MaxAlarms == 1
MaxClock == 1
MaxRequests == 2

----------------------------------------------------------------------------
(* Optional values and Python strings *)

None == {}
Some(v) == {v}
Get(o) == CHOOSE v \in o : TRUE

Whitespace == {" ", "\t", "\n"}

RECURSIVE lstrip(_)
lstrip(s) ==
    IF s # <<>> /\ Head(s) \in Whitespace THEN lstrip(Tail(s)) ELSE s

RECURSIVE rstrip(_)
rstrip(s) ==
    IF s # <<>> /\ s[Len(s)] \in Whitespace
    THEN rstrip(SubSeq(s, 1, Len(s) - 1))
    ELSE s

\* str.strip(): leading and trailing whitespace removed
strip(s) == rstrip(lstrip(s))

Digits == <<"0", "1", "2", "3", "4", "5", "6", "7", "8", "9">>

RECURSIVE NatToStr(_)
NatToStr(n) ==
    IF n < 10 THEN <<Digits[n + 1]>>
    ELSE NatToStr(n \div 10) \o <<Digits[(n % 10) + 1]>>

\* str(n) and f"{n}" of a Python int
IntToStr(n) == IF n < 0 THEN <<"-">> \o NatToStr(-n) ELSE NatToStr(n)

\* str(x) of an Optional[str]: str(None) is the four characters None
StrOfOptStr(o) == IF o = None THEN <<"N", "o", "n", "e">> ELSE Get(o)

\* (x or "") of an Optional[str]
OrEmpty(o) == IF o = None \/ o = Some(<<>>) THEN <<>> ELSE Get(o)

\* (x or 0) of an Optional[int]
OrZero(o) == IF o = None \/ o = Some(0) THEN 0 ELSE Get(o)

\* bool(x) of an Optional[str]
Truthy(o) == o # None /\ o # Some(<<>>)

----------------------------------------------------------------------------
(* bson.ObjectId *)

OidLen == 24
HexChars == {"0", "1", "2", "3", "4", "5", "6", "7", "8", "9",
             "a", "b", "c", "d", "e", "f", "A", "B", "C", "D", "E", "F"}

\* ObjectId(s) raises InvalidId unless s is 24 hex characters
IsValidOid(s) == Len(s) = OidLen /\ \A i \in 1..Len(s) : s[i] \in HexChars

\* bytes.fromhex reads a hex digit in either case, str(oid) writes lower case
LowerHex(c) ==
    CASE c = "A" -> "a" [] c = "B" -> "b" [] c = "C" -> "c"
      [] c = "D" -> "d" [] c = "E" -> "e" [] c = "F" -> "f"
      [] OTHER -> c

\* ObjectId(s): the twelve bytes s spells; two strings that differ in letter
\* case only are the same ObjectId
ObjectId(s) == [oid |-> [i \in 1..Len(s) |-> LowerHex(s[i])]]

\* str(oid)
OidStr(o) == o.oid

\* The id the store generates for the n-th document of a collection: 24 hex
\* characters that begin with the collection's tag and the number n, so that
\* no two documents share an id
NewOid(tag, n) ==
    ObjectId([i \in 1..OidLen |->
                 IF i = 1 THEN tag
                 ELSE IF i = 2 THEN Digits[n + 1] ELSE "0"])

----------------------------------------------------------------------------
(* The document store (database.py) *)

\* create_document / insert_one: the document gets a fresh _id
create_document(coll, tag, doc) ==
    Append(coll, [_id |-> NewOid(tag, Len(coll) + 1)] @@ doc)

\* str(result.inserted_id) of that insertion
inserted_id(coll, tag) == OidStr(NewOid(tag, Len(coll) + 1))

\* find_one({"_id": oid}): None or the document
find_one(coll, oid) ==
    {coll[i] : i \in {j \in DOMAIN coll :
                        /\ coll[j]._id = oid
                        /\ \A k \in 1..(j - 1) : coll[k]._id # oid}}

\* An update whose filter matches every document
update_one_every(coll, oid, patch) ==
    [i \in DOMAIN coll |-> patch @@ coll[i]]

\* update_one({"_id": oid}, {"$set": patch})
update_one(coll, oid, patch) ==
    [i \in DOMAIN coll |->
        IF coll[i]._id = oid THEN patch @@ coll[i] ELSE coll[i]]

\* find({"user_id": u}) / get_documents
find_by_user(coll, u) == SelectSeq(coll, LAMBDA d : d.user_id = u)

\* count_documents({"user_id": u})
count_by_user(coll, u) == Len(find_by_user(coll, u))

\* count_documents({"user_id": u, "unlocked": True})
count_unlocked_by_user(coll, u) ==
    Len(SelectSeq(coll, LAMBDA d : d.user_id = u /\ d.unlocked = TRUE))

----------------------------------------------------------------------------
(* Responses *)

Restrict(f, S) == [k \in (DOMAIN f) \cap S |-> f[k]]

Ok(body) == [code |-> 200, body |-> body]
HTTPException(code, detail) == [code |-> code, detail |-> detail]
\* an exception the handler does not catch: the client sees a 500
ServerError(exc) == [code |-> 500, exc |-> exc]

\* _object_to_out: _id becomes the string id, datetimes become ISO strings
DateKeys == {"created_at", "updated_at", "expires_at"}
_object_to_out(doc) ==
    [k \in ((DOMAIN doc) \ {"_id"}) \cup {"id"} |->
        IF k = "id" THEN OidStr(doc._id)
        ELSE IF k \in DateKeys THEN [iso |-> doc[k]]
        ELSE doc[k]]

AlarmOutFields ==
    {"id", "user_id", "alarm_label", "alarm_time", "apps",
     "lock_duration_minutes", "task_type"}
AlarmOut(out) == Restrict(out, AlarmOutFields)

LockEventOutFields ==
    {"id", "user_id", "apps", "task_type", "unlocked", "expires_at",
     "alarm_id", "puzzle_question", "steps_target", "photo_required"}
LockEventOut(out) == Restrict(out, LockEventOutFields)

----------------------------------------------------------------------------
(* POST /alarms *)

TaskTypes == {"photo", "puzzle", "steps"}

\* schemas.Alarm: lock_duration_minutes = Field(30, ge=5, le=1440)
MinLockDuration == 5
MaxLockDuration == 1440
AlarmSchemaValid(payload) ==
    /\ payload.lock_duration_minutes >= MinLockDuration
    /\ payload.lock_duration_minutes <= MaxLockDuration

\* ":" in s
HasColon(s) == \E i \in 1..Len(s) : s[i] = ":"

\* A handler that stores the document before it looks at alarm_time
create_alarm_storing_first(al, payload) ==
    IF ~AlarmSchemaValid(payload)
    THEN [resp |-> ServerError("ValidationError"), alarm |-> al]
    ELSE LET stored == create_document(al, "a", payload)
             alarm_id == inserted_id(al, "a")
             saved == Get(find_one(stored, ObjectId(alarm_id)))
         IN  IF ~HasColon(payload.alarm_time)
             THEN [resp |-> HTTPException(400, "alarm_time must be HH:MM"),
                   alarm |-> stored]
             ELSE [resp |-> Ok(AlarmOut(_object_to_out(saved))),
                   alarm |-> stored]

\* The handler as a function of the store: the response and the new collection
create_alarm(al, payload) ==
    IF ~HasColon(payload.alarm_time)
    THEN [resp |-> HTTPException(400, "alarm_time must be HH:MM"), alarm |-> al]
    ELSE IF ~AlarmSchemaValid(payload)
    THEN [resp |-> ServerError("ValidationError"), alarm |-> al]
    ELSE LET stored == create_document(al, "a", payload)
             alarm_id == inserted_id(al, "a")
             saved == Get(find_one(stored, ObjectId(alarm_id)))
         IN  [resp |-> Ok(AlarmOut(_object_to_out(saved))), alarm |-> stored]

\* The collection takes MaxAlarms alarms; a request that is rejected can
\* come at any time
CreateAlarm(payload) ==
    /\ \E r \in {create_alarm(alarm, payload)} :
          /\ r.alarm # alarm => Len(alarm) < MaxAlarms
          /\ alarm' = r.alarm
          /\ resp' = r.resp
    /\ req' = [op |-> "create_alarm"]
    /\ UNCHANGED <<lockevent, taskattempt, clock, inflight>>

(* GET /alarms *)

AlarmView(d) == AlarmOut(_object_to_out(d))

\* get_documents(collection, filt): filt is {"user_id": u} or {}, here Some(u)
\* or None
get_documents(coll, filt) ==
    IF filt = None THEN coll ELSE find_by_user(coll, Get(filt))

\* user_id is Optional[str]; a missing or empty user_id lists every alarm
list_alarms(al, user_id) ==
    LET filt == IF Truthy(user_id) THEN user_id ELSE None
        docs == get_documents(al, filt)
    IN  Ok([i \in DOMAIN docs |-> AlarmView(docs[i])])

ListAlarms(user_id) ==
    /\ resp' = list_alarms(alarm, user_id)
    /\ req' = [op |-> "list_alarms"]
    /\ UNCHANGED <<alarm, lockevent, taskattempt, clock, inflight>>

----------------------------------------------------------------------------
(* POST /locks/simulate *)

\* random.randint(10, 99)
RandLo == 10
RandHi == 99

StepsTarget == 30

\* f"What is {a} + {b}?"
PuzzleQuestion(a, b) ==
    <<"W", "h", "a", "t", " ", "i", "s", " ">> \o IntToStr(a)
        \o <<" ", "+", " ">> \o IntToStr(b) \o <<"?">>

\* The secret computed one off the sum the question asks for
lock_doc_sum_off(now, user_id, alarm_id, task_type, lock_minutes, a, b) ==
    [user_id |-> user_id,
     apps |-> <<>>,
     task_type |-> task_type,
     unlocked |-> FALSE,
     expires_at |-> now + lock_minutes,
     alarm_id |-> alarm_id,
     puzzle_question |->
        IF task_type = "puzzle" THEN Some(PuzzleQuestion(a, b)) ELSE None,
     puzzle_answer |->
        IF task_type = "puzzle" THEN Some(IntToStr(a + b + 1)) ELSE None,
     steps_target |-> IF task_type = "steps" THEN Some(StepsTarget) ELSE None,
     photo_required |->
        IF task_type \notin {"puzzle", "steps"} THEN Some(TRUE) ELSE None]

\* The expiry counted from the epoch, not from the time of the request
lock_doc_from_epoch(now, user_id, alarm_id, task_type, lock_minutes, a, b) ==
    [user_id |-> user_id,
     apps |-> <<>>,
     task_type |-> task_type,
     unlocked |-> FALSE,
     expires_at |-> lock_minutes,
     alarm_id |-> alarm_id,
     puzzle_question |->
        IF task_type = "puzzle" THEN Some(PuzzleQuestion(a, b)) ELSE None,
     puzzle_answer |->
        IF task_type = "puzzle" THEN Some(IntToStr(a + b)) ELSE None,
     steps_target |-> IF task_type = "steps" THEN Some(StepsTarget) ELSE None,
     photo_required |->
        IF task_type \notin {"puzzle", "steps"} THEN Some(TRUE) ELSE None]

\* The task payload and the document built from it; a and b are the two
\* random draws (read only by the puzzle branch)
lock_doc(now, user_id, alarm_id, task_type, lock_minutes, a, b) ==
    [user_id |-> user_id,
     apps |-> <<>>,
     task_type |-> task_type,
     unlocked |-> FALSE,
     expires_at |-> now + lock_minutes,
     alarm_id |-> alarm_id,
     puzzle_question |->
        IF task_type = "puzzle" THEN Some(PuzzleQuestion(a, b)) ELSE None,
     puzzle_answer |->
        IF task_type = "puzzle" THEN Some(IntToStr(a + b)) ELSE None,
     steps_target |-> IF task_type = "steps" THEN Some(StepsTarget) ELSE None,
     photo_required |->
        IF task_type \notin {"puzzle", "steps"} THEN Some(TRUE) ELSE None]

\* out.pop(key)
Pop(out, key) == Restrict(out, (DOMAIN out) \ {key})

\* The saved document returned as it is, with no output view
simulate_lock_view_unstripped(saved) == _object_to_out(saved)

\* What the handler returns for the saved document, as serialized through
\* response_model=LockEventOut
simulate_lock_view(saved) ==
    LockEventOut(Pop(_object_to_out(saved), "puzzle_answer"))

simulate_lock(le, now, user_id, alarm_id, task_type, lock_minutes, a, b) ==
    LET doc == lock_doc(now, user_id, alarm_id, task_type, lock_minutes, a, b)
        stored == create_document(le, "e", doc)
        lock_id == inserted_id(le, "e")
        saved == Get(find_one(stored, ObjectId(lock_id)))
    IN  [resp |-> Ok(simulate_lock_view(saved)), lockevent |-> stored]

SimulateLock(user_id, alarm_id, task_type, lock_minutes, a, b) ==
    /\ Len(lockevent) < MaxLocks
    /\ \E r \in {simulate_lock(lockevent, clock, user_id, alarm_id, task_type,
                               lock_minutes, a, b)} :
          /\ lockevent' = r.lockevent
          /\ resp' = r.resp
    /\ req' = [op |-> "simulate_lock"]
    /\ UNCHANGED <<alarm, taskattempt, clock, inflight>>

----------------------------------------------------------------------------
(* POST /locks/attempt *)

\* payload.task_type == "puzzle": lines 161-164
puzzle_branch(lock, payload) ==
    LET provided == strip(OrEmpty(payload.answer))
        correct == strip(StrOfOptStr(lock.puzzle_answer))
        success == (provided = correct)
    IN  [raised |-> FALSE,
         success |-> success,
         detail |-> IF success
                    THEN <<"c", "o", "r", "r", "e", "c", "t">>
                    ELSE <<"i", "n", "c", "o", "r", "r", "e", "c", "t">>]

\* The comparison written > instead of >=
steps_branch_strict(lock, payload) ==
    IF lock.steps_target = None
    THEN [raised |-> TRUE]
    ELSE LET needed == Get(lock.steps_target)
             success == (OrZero(payload.steps) > needed)
         IN  [raised |-> FALSE,
              success |-> success,
              detail |-> IntToStr(OrZero(payload.steps)) \o <<"/">>
                            \o IntToStr(needed)
                            \o <<" ", "s", "t", "e", "p", "s">>]

\* The detail formatted from payload.steps itself: f"{payload.steps}/..."
steps_branch_raw_detail(lock, payload) ==
    IF lock.steps_target = None
    THEN [raised |-> TRUE]
    ELSE LET needed == Get(lock.steps_target)
             success == (OrZero(payload.steps) >= needed)
         IN  [raised |-> FALSE,
              success |-> success,
              detail |-> (IF payload.steps = None
                          THEN <<"N", "o", "n", "e">>
                          ELSE IntToStr(Get(payload.steps))) \o <<"/">>
                            \o IntToStr(needed)
                            \o <<" ", "s", "t", "e", "p", "s">>]

\* payload.task_type == "steps": lines 166-168.  The key steps_target is in
\* every document simulate_lock stores, so lock.get("steps_target", 0) is the
\* stored value, and int(None) raises TypeError
steps_branch(lock, payload) ==
    IF lock.steps_target = None
    THEN [raised |-> TRUE]
    ELSE LET needed == Get(lock.steps_target)
             success == (OrZero(payload.steps) >= needed)
         IN  [raised |-> FALSE,
              success |-> success,
              detail |-> IntToStr(OrZero(payload.steps)) \o <<"/">>
                            \o IntToStr(needed)
                            \o <<" ", "s", "t", "e", "p", "s">>]

\* A photo check that passes whenever an answer is sent, the empty one included
photo_branch_any_string(lock, payload) ==
    LET success == (payload.answer # None)
    IN  [raised |-> FALSE,
         success |-> success,
         detail |-> IF success
                    THEN <<"p", "h", "o", "t", "o", " ",
                           "a", "c", "c", "e", "p", "t", "e", "d">>
                    ELSE <<"p", "h", "o", "t", "o", " ",
                           "m", "i", "s", "s", "i", "n", "g">>]

\* else (photo): lines 171-172
photo_branch(lock, payload) ==
    LET success == Truthy(payload.answer)
    IN  [raised |-> FALSE,
         success |-> success,
         detail |-> IF success
                    THEN <<"p", "h", "o", "t", "o", " ",
                           "a", "c", "c", "e", "p", "t", "e", "d">>
                    ELSE <<"p", "h", "o", "t", "o", " ",
                           "m", "i", "s", "s", "i", "n", "g">>]

\* The dispatch on the attempt's own task_type: lines 160-172
evaluate(lock, payload) ==
    IF payload.task_type = "puzzle" THEN puzzle_branch(lock, payload)
    ELSE IF payload.task_type = "steps" THEN steps_branch(lock, payload)
    ELSE photo_branch(lock, payload)

\* attempt_doc: lines 175-181
attempt_doc(payload, success, detail) ==
    [lock_id |-> payload.lock_id,
     user_id |-> payload.user_id,
     task_type |-> payload.task_type,
     success |-> success,
     details |-> detail]

\* create_document("taskattempt", attempt_doc): line 182
record_attempt_failures_only(ta, payload, ev) ==
    IF ev.success THEN ta
    ELSE create_document(ta, "f", attempt_doc(payload, ev.success, ev.detail))

record_attempt(ta, payload, ev) ==
    create_document(ta, "f", attempt_doc(payload, ev.success, ev.detail))

\* A handler that evaluates whatever the lock's state is and stores the
\* outcome as the new value of unlocked
attempt_unlock_reevaluating(le, ta, now, payload) ==
    IF ~IsValidOid(payload.lock_id)
    THEN [resp |-> ServerError("InvalidId"),
          lockevent |-> le, taskattempt |-> ta]
    ELSE LET found == find_one(le, ObjectId(payload.lock_id)) IN
    IF found = None
    THEN [resp |-> HTTPException(404, "Lock not found"),
          lockevent |-> le, taskattempt |-> ta]
    ELSE LET ev == evaluate(Get(found), payload) IN
    IF ev.raised
    THEN [resp |-> ServerError("TypeError"),
          lockevent |-> le, taskattempt |-> ta]
    ELSE [resp |-> IF ev.success
                   THEN Ok([status |-> "unlocked"])
                   ELSE Ok([status |-> "try_again", detail |-> ev.detail]),
          lockevent |-> update_one(le, ObjectId(payload.lock_id),
                                   [unlocked |-> ev.success,
                                    updated_at |-> now]),
          taskattempt |-> record_attempt(ta, payload, ev)]

\* A handler without the already_unlocked short-circuit of lines 154-155
attempt_unlock_unguarded(le, ta, now, payload) ==
    IF ~IsValidOid(payload.lock_id)
    THEN [resp |-> ServerError("InvalidId"),
          lockevent |-> le, taskattempt |-> ta]
    ELSE LET found == find_one(le, ObjectId(payload.lock_id)) IN
    IF found = None
    THEN [resp |-> HTTPException(404, "Lock not found"),
          lockevent |-> le, taskattempt |-> ta]
    ELSE LET ev == evaluate(Get(found), payload) IN
    IF ev.raised
    THEN [resp |-> ServerError("TypeError"),
          lockevent |-> le, taskattempt |-> ta]
    ELSE IF ev.success
    THEN [resp |-> Ok([status |-> "unlocked"]),
          lockevent |-> update_one(le, ObjectId(payload.lock_id),
                                   [unlocked |-> TRUE, updated_at |-> now]),
          taskattempt |-> record_attempt(ta, payload, ev)]
    ELSE [resp |-> Ok([status |-> "try_again", detail |-> ev.detail]),
          lockevent |-> le,
          taskattempt |-> record_attempt(ta, payload, ev)]

\* A handler that logs the attempt on an unlocked lock too, as a failure
attempt_unlock_logging_always(le, ta, now, payload) ==
    IF ~IsValidOid(payload.lock_id)
    THEN [resp |-> ServerError("InvalidId"),
          lockevent |-> le, taskattempt |-> ta]
    ELSE LET found == find_one(le, ObjectId(payload.lock_id)) IN
    IF found = None
    THEN [resp |-> HTTPException(404, "Lock not found"),
          lockevent |-> le, taskattempt |-> ta]
    ELSE LET lock == Get(found) IN
    IF lock.unlocked
    THEN [resp |-> Ok([status |-> "already_unlocked"]),
          lockevent |-> le,
          taskattempt |->
             create_document(ta, "f", attempt_doc(payload, FALSE, <<>>))]
    ELSE LET ev == evaluate(lock, payload) IN
    IF ev.raised
    THEN [resp |-> ServerError("TypeError"),
          lockevent |-> le, taskattempt |-> ta]
    ELSE LET logged == record_attempt(ta, payload, ev) IN
    IF ev.success
    THEN [resp |-> Ok([status |-> "unlocked"]),
          lockevent |-> update_one(le, ObjectId(payload.lock_id),
                                   [unlocked |-> TRUE, updated_at |-> now]),
          taskattempt |-> logged]
    ELSE [resp |-> Ok([status |-> "try_again", detail |-> ev.detail]),
          lockevent |-> le, taskattempt |-> logged]

\* The handler as a function of the store: the response and the new
\* collections.  An exception leaves the store as it was when it was raised.
attempt_unlock(le, ta, now, payload) ==
    IF ~IsValidOid(payload.lock_id)
    THEN [resp |-> ServerError("InvalidId"),
          lockevent |-> le, taskattempt |-> ta]
    ELSE LET found == find_one(le, ObjectId(payload.lock_id)) IN
    IF found = None
    THEN [resp |-> HTTPException(404, "Lock not found"),
          lockevent |-> le, taskattempt |-> ta]
    ELSE LET lock == Get(found) IN
    IF lock.unlocked
    THEN [resp |-> Ok([status |-> "already_unlocked"]),
          lockevent |-> le, taskattempt |-> ta]
    ELSE LET ev == evaluate(lock, payload) IN
    IF ev.raised
    THEN [resp |-> ServerError("TypeError"),
          lockevent |-> le, taskattempt |-> ta]
    ELSE LET logged == record_attempt(ta, payload, ev) IN
    IF ev.success
    THEN [resp |-> Ok([status |-> "unlocked"]),
          lockevent |-> update_one(le, ObjectId(payload.lock_id),
                                   [unlocked |-> TRUE, updated_at |-> now]),
          taskattempt |-> logged]
    ELSE [resp |-> Ok([status |-> "try_again", detail |-> ev.detail]),
          lockevent |-> le, taskattempt |-> logged]

\* The status of an attempt response ("error" for a 404 or a 500)
StatusOf(r) == IF r.code = 200 THEN r.body.status ELSE "error"
Evaluated(r) == StatusOf(r) \in {"unlocked", "try_again"}

\* The failed attempts on record
Failures(ta) == SelectSeq(ta, LAMBDA d : ~d.success)

\* A lock is unlocked once, a failed attempt can be repeated without end:
\* the log takes MaxFailures of them
AttemptUnlock(payload) ==
    \E r \in {attempt_unlock(lockevent, taskattempt, clock, payload)} :
    /\ StatusOf(r.resp) = "try_again" => Len(Failures(taskattempt)) < MaxFailures
    /\ lockevent' = r.lockevent
    /\ taskattempt' = r.taskattempt
    /\ resp' = r.resp
    /\ req' = [op |-> "attempt_unlock", payload |-> payload]
    /\ UNCHANGED <<alarm, clock, inflight>>

----------------------------------------------------------------------------
(* GET /insights/morning *)

RECURSIVE Gcd(_, _)
Gcd(m, n) == IF n = 0 THEN m ELSE Gcd(n, m % n)

\* n / d of two non-negative ints, d > 0: the quotient in lowest terms
Quotient(n, d) == <<n \div Gcd(n, d), d \div Gcd(n, d)>>
Zero == <<0, 1>>

\* The average guarded by the number of attempts, not by the number of locks
morning_insights_guarding_attempts(le, ta, user_id) ==
    LET total_locks == count_by_user(le, user_id)
        unlocked == count_unlocked_by_user(le, user_id)
        attempts_count == Len(find_by_user(ta, user_id))
    IN  Ok([total_locks |-> total_locks,
            unlocked |-> unlocked,
            success_rate |->
                IF total_locks # 0 THEN Quotient(unlocked, total_locks)
                ELSE Zero,
            avg_attempts_per_lock |->
                IF attempts_count # 0 THEN Quotient(attempts_count, total_locks)
                ELSE Zero])

\* Lines 196-204: the response computed from the three reads
insights_response(total_locks, unlocked, attempts_count) ==
    Ok([total_locks |-> total_locks,
        unlocked |-> unlocked,
        success_rate |->
            IF total_locks # 0 THEN Quotient(unlocked, total_locks)
            ELSE Zero,
        avg_attempts_per_lock |->
            IF total_locks # 0 THEN Quotient(attempts_count, total_locks)
            ELSE Zero])

morning_insights(le, ta, user_id) ==
    LET total_locks == count_by_user(le, user_id)
        unlocked == count_unlocked_by_user(le, user_id)
        attempts_count == Len(find_by_user(ta, user_id))
    IN  insights_response(total_locks, unlocked, attempts_count)

MorningInsights(user_id) ==
    /\ resp' = morning_insights(lockevent, taskattempt, user_id)
    /\ req' = [op |-> "morning_insights", user_id |-> user_id]
    /\ UNCHANGED <<alarm, lockevent, taskattempt, clock, inflight>>

----------------------------------------------------------------------------
(* Time passes between requests *)

Tick ==
    /\ clock < MaxClock
    /\ clock' = clock + 1
    /\ UNCHANGED <<alarm, lockevent, taskattempt, req, resp, inflight>>

----------------------------------------------------------------------------
(* Requests *)

User1 == <<"u", "1">>
User2 == <<"u", "2">>

\* The ids a client can present: those the store gives its first locks, the
\* last of them a well-formed id of no stored lock, and a string that is no
\* ObjectId
LockIds ==
    {OidStr(NewOid("e", n)) : n \in 1..(MaxLocks + 1)} \cup {<<"e", "1">>}

\* The stored secrets
Secrets ==
    {Get(lockevent[i].puzzle_answer) :
        i \in {j \in DOMAIN lockevent : lockevent[j].puzzle_answer # None}}

NoneText == <<"N", "o", "n", "e">>
Photo == <<"j", "p", "g">>

\* An attempt of one task type: a puzzle or photo attempt carries an answer,
\* a steps attempt a step count
Attempts(lockIds, users, taskType, answers, steps) ==
    [lock_id : lockIds, user_id : users, task_type : {taskType},
     answer : answers, steps : steps]

AlarmPayloads(users) ==
    [user_id : users,
     alarm_label : {None},
     alarm_time : {<<"0", "7", ":", "3", "0">>, <<"0", "7", "3", "0">>},
     apps : {<<>>},
     lock_duration_minutes : {30, 4},
     task_type : {"puzzle"}]

----------------------------------------------------------------------------
(* Concurrent requests *)

\* The workers that serve requests side by side
Workers == 1..MaxRequests

\* A worker between requests, with the response it returned last
Idle(returned) == [pc |-> "idle", returned |-> returned]

(* attempt_unlock, one store operation at a time.  A worker serving it is  *)
(* at "attempt_record" before create_document (line 182), with the        *)
(* outcome it evaluated, and at "attempt_update" before update_one         *)
(* (line 185).                                                             *)

\* Lines 151-172: find_one, the two early returns and the evaluation, which
\* reads nothing but the document found
attempt_read(le, payload) ==
    IF ~IsValidOid(payload.lock_id) THEN Idle(ServerError("InvalidId"))
    ELSE LET found == find_one(le, ObjectId(payload.lock_id)) IN
    IF found = None THEN Idle(HTTPException(404, "Lock not found"))
    ELSE LET lock == Get(found) IN
    IF lock.unlocked THEN Idle(Ok([status |-> "already_unlocked"]))
    ELSE LET ev == evaluate(lock, payload) IN
    IF ev.raised THEN Idle(ServerError("TypeError"))
    ELSE [pc |-> "attempt_record", payload |-> payload, ev |-> ev]

\* A handler that updates the lock first and writes the record after it
attempt_step_update_first(le, ta, now, st) ==
    IF st.pc = "attempt_record"
    THEN IF st.ev.success
         THEN [lockevent |-> update_one(le, ObjectId(st.payload.lock_id),
                                        [unlocked |-> TRUE, updated_at |-> now]),
               taskattempt |-> ta,
               worker |-> [pc |-> "attempt_update", payload |-> st.payload,
                           ev |-> st.ev]]
         ELSE [lockevent |-> le,
               taskattempt |-> record_attempt(ta, st.payload, st.ev),
               worker |-> Idle(Ok([status |-> "try_again",
                                   detail |-> st.ev.detail]))]
    ELSE [lockevent |-> le,
          taskattempt |-> record_attempt(ta, st.payload, st.ev),
          worker |-> Idle(Ok([status |-> "unlocked"]))]

\* A handler that looks at the lock again before it writes, and writes
\* nothing when the lock has been unlocked meanwhile
attempt_step_compare_and_swap(le, ta, now, st) ==
    IF st.pc = "attempt_record"
    THEN IF Get(find_one(le, ObjectId(st.payload.lock_id))).unlocked
         THEN [lockevent |-> le, taskattempt |-> ta,
               worker |-> Idle(Ok([status |-> "already_unlocked"]))]
         ELSE [lockevent |-> le,
               taskattempt |-> record_attempt(ta, st.payload, st.ev),
               worker |-> IF st.ev.success
                          THEN [pc |-> "attempt_update", payload |-> st.payload,
                                ev |-> st.ev]
                          ELSE Idle(Ok([status |-> "try_again",
                                        detail |-> st.ev.detail]))]
    ELSE [lockevent |-> update_one(le, ObjectId(st.payload.lock_id),
                                   [unlocked |-> TRUE, updated_at |-> now]),
          taskattempt |-> ta,
          worker |-> Idle(Ok([status |-> "unlocked"]))]

\* Lines 174-188: create_document, then on success update_one; the response
\* follows the last store operation
attempt_step(le, ta, now, st) ==
    IF st.pc = "attempt_record"
    THEN [lockevent |-> le,
          taskattempt |-> record_attempt(ta, st.payload, st.ev),
          worker |-> IF st.ev.success
                     THEN [pc |-> "attempt_update", payload |-> st.payload,
                           ev |-> st.ev]
                     ELSE Idle(Ok([status |-> "try_again",
                                   detail |-> st.ev.detail]))]
    ELSE [lockevent |-> update_one(le, ObjectId(st.payload.lock_id),
                                   [unlocked |-> TRUE, updated_at |-> now]),
          taskattempt |-> ta,
          worker |-> Idle(Ok([status |-> "unlocked"]))]

\* The failed attempts evaluated and not yet on record
PendingFailures ==
    {p \in Workers : /\ inflight[p].pc = "attempt_record"
                     /\ ~inflight[p].ev.success}

BeginAttempt(p, payload) ==
    /\ inflight[p].pc = "idle"
    /\ \E st \in {attempt_read(lockevent, payload)} :
          /\ (st.pc = "attempt_record" /\ ~st.ev.success) =>
                Len(Failures(taskattempt)) + Cardinality(PendingFailures)
                    < MaxFailures
          /\ inflight' = [inflight EXCEPT ![p] = st]
          /\ IF st.pc = "idle"
             THEN /\ resp' = st.returned
                  /\ req' = [op |-> "attempt_unlock", payload |-> payload]
             ELSE UNCHANGED <<req, resp>>
    /\ UNCHANGED <<alarm, lockevent, taskattempt, clock>>

ContinueAttempt(p) ==
    /\ inflight[p].pc \in {"attempt_record", "attempt_update"}
    /\ \E r \in {attempt_step(lockevent, taskattempt, clock, inflight[p])} :
          /\ lockevent' = r.lockevent
          /\ taskattempt' = r.taskattempt
          /\ inflight' = [inflight EXCEPT ![p] = r.worker]
          /\ IF r.worker.pc = "idle"
             THEN /\ resp' = r.worker.returned
                  /\ req' = [op |-> "attempt_unlock",
                             payload |-> inflight[p].payload]
             ELSE UNCHANGED <<req, resp>>
    /\ UNCHANGED <<alarm, clock>>

(* morning_insights, one read at a time: the count of locks (line 193),    *)
(* the count of unlocked locks (line 194), the list of attempts (line 195) *)

insights_read(le, user_id) ==
    [pc |-> "insights_unlocked", user_id |-> user_id,
     total_locks |-> count_by_user(le, user_id)]

insights_step(le, ta, st) ==
    IF st.pc = "insights_unlocked"
    THEN [pc |-> "insights_attempts", user_id |-> st.user_id,
          total_locks |-> st.total_locks,
          unlocked |-> count_unlocked_by_user(le, st.user_id)]
    ELSE Idle(insights_response(st.total_locks, st.unlocked,
                                Len(find_by_user(ta, st.user_id))))

BeginInsights(p, user_id) ==
    /\ inflight[p].pc = "idle"
    /\ inflight' = [inflight EXCEPT ![p] = insights_read(lockevent, user_id)]
    /\ UNCHANGED <<alarm, lockevent, taskattempt, clock, req, resp>>

ContinueInsights(p) ==
    /\ inflight[p].pc \in {"insights_unlocked", "insights_attempts"}
    /\ \E st \in {insights_step(lockevent, taskattempt, inflight[p])} :
          /\ inflight' = [inflight EXCEPT ![p] = st]
          /\ IF st.pc = "idle"
             THEN /\ resp' = st.returned
                  /\ req' = [op |-> "morning_insights",
                             user_id |-> inflight[p].user_id]
             ELSE UNCHANGED <<req, resp>>
    /\ UNCHANGED <<alarm, lockevent, taskattempt, clock>>

----------------------------------------------------------------------------

Init ==
    /\ alarm = <<>>
    /\ lockevent = <<>>
    /\ taskattempt = <<>>
    /\ clock = 0
    /\ req = [op |-> "none"]
    /\ resp = [code |-> 0]
    /\ inflight = [p \in Workers |-> Idle([code |-> 0])]

\* The ids of the stored locks
StoredIds == {OidStr(lockevent[i]._id) : i \in DOMAIN lockevent}

\* A passing and a failing submission of each task type
Submissions(lockIds, users) ==
    Attempts(lockIds, users, "puzzle",
             {None, Some(NoneText)} \cup {Some(s) : s \in Secrets}, {None})
    \cup Attempts(lockIds, users, "steps", {None}, {None, Some(StepsTarget)})
    \cup Attempts(lockIds, users, "photo", {None, Some(Photo)}, {None})

(* The lock lifecycle, one user: each stored task type against each        *)
(* attempted task type, and attempts on ids that name no stored lock       *)

SpecAttempts ==
    Submissions(StoredIds, {User1})
    \cup Attempts(LockIds \ StoredIds, {User1}, "puzzle", {None}, {None})

NextLock ==
    \/ \E task_type \in TaskTypes :
            SimulateLock(User1, None, task_type, 30, RandLo, RandLo)
    \/ \E payload \in SpecAttempts : AttemptUnlock(payload)
    \/ MorningInsights(User1)

Spec == Init /\ [][NextLock]_vars

(* Every endpoint *)

NextApi ==
    \/ NextLock
    \/ \E payload \in AlarmPayloads({User1}) : CreateAlarm(payload)
    \/ \E user_id \in {None, Some(User1)} : ListAlarms(user_id)

SpecApi == Init /\ [][NextApi]_vars

(* Step counting: every kind of lock, steps attempts below, at and above  *)
(* the target                                                              *)

StepCounts == {None, Some(0), Some(5), Some(25), Some(StepsTarget)}

NextSteps ==
    \/ \E task_type \in TaskTypes :
            SimulateLock(User1, None, task_type, 30, RandLo, RandLo)
    \/ \E payload \in Attempts(StoredIds, {User1}, "steps", {None}, StepCounts) :
            AttemptUnlock(payload)

SpecSteps == Init /\ [][NextSteps]_vars

(* Time: locks of every duration, created as the clock advances *)

LockMinutes == {-5, 0, 30}

\* The draws of random.randint taken here: the ends of its range
Operands == {RandLo, RandHi}

NextTime ==
    \/ \E task_type \in TaskTypes, lock_minutes \in LockMinutes :
       \E a \in Operands, b \in Operands :
            SimulateLock(User1, None, task_type, lock_minutes, a, b)
    \/ \E payload \in Attempts(StoredIds, {User1}, "photo", {Some(Photo)}, {None}) :
            AttemptUnlock(payload)
    \/ Tick

SpecTime == Init /\ [][NextTime]_vars

(* The attempt log, two users: either user creates locks and either       *)
(* attempts any of them, under the id as stored or spelled in capitals    *)

UpperHex(c) ==
    CASE c = "a" -> "A" [] c = "b" -> "B" [] c = "c" -> "C"
      [] c = "d" -> "D" [] c = "e" -> "E" [] c = "f" -> "F"
      [] OTHER -> c

\* The same 24 hex digits in capitals
Capitals(id) == [i \in 1..Len(id) |-> UpperHex(id[i])]

Users == {User1, User2}

NextLog ==
    \/ \E user_id \in Users :
            SimulateLock(user_id, None, "photo", 30, RandLo, RandLo)
    \/ \E payload \in Attempts(StoredIds \cup {Capitals(id) : id \in StoredIds},
                                Users, "photo", {None, Some(Photo)}, {None}) :
            AttemptUnlock(payload)
    \/ \E user_id \in Users : MorningInsights(user_id)

SpecLog == Init /\ [][NextLog]_vars

(* Concurrent requests: photo locks of one user, attempts with and without *)
(* an answer and insights, served by the workers side by side              *)

NextConc ==
    \/ SimulateLock(User1, None, "photo", 30, RandLo, RandLo)
    \/ \E p \in Workers :
       \E payload \in Attempts(StoredIds, {User1}, "photo",
                               {None, Some(Photo)}, {None}) :
            BeginAttempt(p, payload)
    \/ \E p \in Workers : ContinueAttempt(p)
    \/ \E p \in Workers : BeginInsights(p, User1)
    \/ \E p \in Workers : ContinueInsights(p)

SpecConc == Init /\ [][NextConc]_vars

\* A worker that has begun a request goes on to its next store operation
FairSpecConc ==
    /\ SpecConc
    /\ \A p \in Workers :
          WF_vars(ContinueAttempt(p)) /\ WF_vars(ContinueInsights(p))

----------------------------------------------------------------------------
(* Properties.  A property of a handler is stated of the handler applied   *)
(* to the store of every reachable state, for every request of the sets    *)
(* below; these are wider than the requests the actions above issue.       *)

\* What a client can type as the answer to a lock whose stored secret is s:
\* the secret, the secret in whitespace, the secret with a leading zero
AnswersFor(s) ==
    {Some(s), Some(<<" ">> \o s \o <<"\n">>), Some(<<"0">> \o s)}

RichAnswers ==
    {None, Some(<<>>), Some(<<" ">>), Some(NoneText), Some(Photo)}
        \cup UNION {AnswersFor(s) : s \in Secrets}

RichSteps ==
    {None, Some(-1), Some(0), Some(StepsTarget - 1), Some(StepsTarget),
     Some(StepsTarget + 1)}

AnyAnswer == {None, Some(NoneText), Some(Photo)} \cup {Some(s) : s \in Secrets}

AnySteps == {None, Some(StepsTarget)}

\* Every attempt on the lock ids given: each task type with each answer and
\* each step count, by the lock's user and by another
AnyAttempt(lockIds) ==
    [lock_id : lockIds, user_id : {User1, User2}, task_type : TaskTypes,
     answer : AnyAnswer, steps : AnySteps]

\* The puzzle attempts and the steps attempts on the lock ids given
PuzzleAttempts(lockIds) ==
    Attempts(lockIds, {User1, User2}, "puzzle", RichAnswers, AnySteps)
StepsAttempts(lockIds) ==
    Attempts(lockIds, {User1, User2}, "steps", {None, Some(Photo)}, RichSteps)

\* The handler applied to the current store
Call(payload) == attempt_unlock(lockevent, taskattempt, clock, payload)

\* The stored lock a payload names
LockOf(le, payload) == Get(find_one(le, ObjectId(payload.lock_id)))

LockedIds ==
    {OidStr(lockevent[i]._id) :
        i \in {j \in DOMAIN lockevent : ~lockevent[j].unlocked}}
UnlockedIds == StoredIds \ LockedIds

\* C1: once a LockEvent's unlocked field is true, no step of any handler
\* (simulate_lock, attempt_unlock, insights) makes it false again or removes
\* the event: UNLOCKED is terminal
C1_UnlockedIsTerminal ==
    [][\A i \in DOMAIN lockevent :
          lockevent[i].unlocked =>
             /\ i \in DOMAIN lockevent'
             /\ lockevent'[i]._id = lockevent[i]._id
             /\ lockevent'[i].unlocked]_vars

\* C1 witness: a lock was unlocked and later attempts on it were served
C1_Witness ==
    /\ UnlockedIds # {}
    /\ req.op = "attempt_unlock"
    /\ req.payload.lock_id \in UnlockedIds
    /\ StatusOf(resp) = "already_unlocked"
    /\ Len(lockevent) = MaxLocks

\* "25/30 steps"
Detail25of30 == <<"2", "5", "/", "3", "0", " ", "s", "t", "e", "p", "s">>

StepsAttempt(id, n) ==
    [lock_id |-> id, user_id |-> User1, task_type |-> "steps",
     answer |-> None, steps |-> Some(n)]

\* The responses to steps=25, steps=30, steps=5 sent in this order to lock id
Scenario(id) ==
    LET r1 == attempt_unlock(lockevent, taskattempt, clock, StepsAttempt(id, 25))
        r2 == attempt_unlock(r1.lockevent, r1.taskattempt, clock,
                             StepsAttempt(id, 30))
        r3 == attempt_unlock(r2.lockevent, r2.taskattempt, clock,
                             StepsAttempt(id, 5))
    IN  <<r1.resp, r2.resp, r3.resp>>

\* C2: an attempt on a LOCKED lock that evaluates to success returns status
\* unlocked and leaves the lock UNLOCKED; one that evaluates to failure
\* returns try_again with the detail string and leaves the lock LOCKED; and
\* on a lock with steps_target 30 the attempts 25, 30, 5 return try_again
\* "25/30 steps", unlocked, already_unlocked
C2_AttemptOutcome ==
    /\ \A payload \in AnyAttempt(LockedIds) :
          \A r \in {Call(payload)} :
          \A ev \in {evaluate(LockOf(lockevent, payload), payload)} :
          \A after \in {LockOf(r.lockevent, payload)} :
              /\ StatusOf(r.resp) = "unlocked" =>
                    /\ ev.success
                    /\ after.unlocked
                    /\ r.resp.body = [status |-> "unlocked"]
              /\ StatusOf(r.resp) = "try_again" =>
                    /\ ~ev.success
                    /\ ~after.unlocked
                    /\ DOMAIN r.resp.body = {"status", "detail"}
                    /\ r.resp.body.detail # <<>>
              /\ StatusOf(r.resp) = "error" => ev.raised
    /\ \A id \in LockedIds :
          LockOf(lockevent, [lock_id |-> id]).steps_target = Some(30) =>
             Scenario(id) =
                <<Ok([status |-> "try_again", detail |-> Detail25of30]),
                  Ok([status |-> "unlocked"]),
                  Ok([status |-> "already_unlocked"])>>

\* C2 witness: the scenario has run: 25 steps failed and are on record as
\* "25/30 steps", 30 steps unlocked the lock, and the attempt with 5 steps was
\* answered already_unlocked
C2_Witness ==
    /\ Len(taskattempt) = 2
    /\ taskattempt[1].details = Detail25of30 /\ ~taskattempt[1].success
    /\ taskattempt[2].success
    /\ taskattempt[2].lock_id = taskattempt[1].lock_id
    /\ req.op = "attempt_unlock"
    /\ req.payload.lock_id = taskattempt[1].lock_id
    /\ req.payload.steps = Some(5)
    /\ resp = Ok([status |-> "already_unlocked"])

\* C3: an attempt on an UNLOCKED lock returns already_unlocked whatever its
\* task_type, answer and steps are, appends no TaskAttempt and leaves every
\* LockEvent as it is
C3_AlreadyUnlocked ==
    \A payload \in AnyAttempt(UnlockedIds) :
        Call(payload) = [resp |-> Ok([status |-> "already_unlocked"]),
                         lockevent |-> lockevent,
                         taskattempt |-> taskattempt]

\* C3 witness: an attempt that would have passed was answered
\* already_unlocked, with another lock in the store
C3_Witness ==
    /\ req.op = "attempt_unlock"
    /\ resp = Ok([status |-> "already_unlocked"])
    /\ req.payload.lock_id \in UnlockedIds
    /\ req.payload.task_type = "photo"
    /\ req.payload.answer = Some(Photo)
    /\ Len(lockevent) = MaxLocks

\* The record an evaluated attempt is to leave in the log
ExpectedRecord(payload, ev) ==
    [_id |-> NewOid("f", Len(taskattempt) + 1),
     lock_id |-> payload.lock_id,
     user_id |-> payload.user_id,
     task_type |-> payload.task_type,
     success |-> ev.success,
     details |-> ev.detail]

\* C4: every attempt on a stored LOCKED lock, whatever the attempt's
\* task_type, its payload and the lock's stored type, appends exactly one
\* TaskAttempt, whose success and details are the outcome of the call
\* (success iff the call returns unlocked)
C4_OneRecordPerEvaluation ==
    \A payload \in AnyAttempt(LockedIds) :
        \A r \in {Call(payload)} :
            /\ StatusOf(r.resp) \in {"unlocked", "try_again"}
            /\ r.taskattempt =
                  Append(taskattempt,
                         ExpectedRecord(payload,
                             evaluate(LockOf(lockevent, payload), payload)))
            /\ r.taskattempt[Len(r.taskattempt)].success
                  = (StatusOf(r.resp) = "unlocked")

\* C5 as stated, of the calls the endpoint answers: every attempt_unlock
\* call appends exactly one TaskAttempt
C5_OneRecordPerCall ==
    [][(req'.op = "attempt_unlock" /\ resp'.code = 200) =>
          Len(taskattempt') = Len(taskattempt) + 1]_vars

\* C5, amended: a call that returns unlocked or try_again appends exactly one
\* TaskAttempt and keeps the records before it; a call that returns
\* already_unlocked or ends in an error appends none
C5_OneRecordPerEvaluatedCall ==
    [][req'.op = "attempt_unlock" =>
          IF Evaluated(resp')
          THEN /\ Len(taskattempt') = Len(taskattempt) + 1
               /\ SubSeq(taskattempt', 1, Len(taskattempt)) = taskattempt
          ELSE taskattempt' = taskattempt]_vars

\* C5 witness: one call was evaluated and recorded, the next one was answered
\* already_unlocked and left the log at one record
C5_Witness ==
    /\ req.op = "attempt_unlock"
    /\ StatusOf(resp) = "already_unlocked"
    /\ Len(taskattempt) = 1
    /\ taskattempt[1].success

\* C6: an attempt whose lock_id names no stored LockEvent, whatever string
\* it is, ends in the 404 error, appends nothing and changes no LockEvent
C6_UnknownLockIsNotFound ==
    \A payload \in AnyAttempt((LockIds \cup {<<>>}) \ StoredIds) :
        Call(payload) = [resp |-> HTTPException(404, "Lock not found"),
                         lockevent |-> lockevent,
                         taskattempt |-> taskattempt]

\* The strings a response carries, by endpoint
OptText(o) == IF o = None THEN {} ELSE {Get(o)}
AlarmTexts(a) == {a.id, a.user_id, a.alarm_time} \cup OptText(a.alarm_label)
Carried ==
    IF resp.code # 200 \/ req.op = "morning_insights" THEN {}
    ELSE IF req.op = "simulate_lock"
    THEN {resp.body.id, resp.body.user_id}
            \cup OptText(resp.body.alarm_id)
            \cup OptText(resp.body.puzzle_question)
    ELSE IF req.op = "attempt_unlock"
    THEN IF "detail" \in DOMAIN resp.body THEN {resp.body.detail} ELSE {}
    ELSE IF req.op = "create_alarm" THEN AlarmTexts(resp.body)
    ELSE UNION {AlarmTexts(resp.body[i]) : i \in DOMAIN resp.body}

\* The response is a JSON object with these fields
FieldsOf(body) == DOMAIN body

\* C7: no response carries the private puzzle_answer: the view simulate_lock
\* returns has no puzzle_answer field, whatever the task type, and no string
\* in a response of simulate_lock, attempt_unlock, create_alarm, list_alarms
\* or insights is the stored secret of a lock
C7_SecretNeverSerialized ==
    /\ req.op = "simulate_lock" =>
          /\ resp.code = 200
          /\ "puzzle_answer" \notin FieldsOf(resp.body)
          /\ "id" \in FieldsOf(resp.body)
    /\ req.op \in {"attempt_unlock", "create_alarm", "morning_insights"}
          /\ resp.code = 200 =>
          "puzzle_answer" \notin FieldsOf(resp.body)
    /\ Carried \cap Secrets = {}

\* C7 witness: a puzzle lock with its secret is stored and its view was
\* returned with the question
C7_Witness ==
    /\ req.op = "simulate_lock"
    /\ resp.body.task_type = "puzzle"
    /\ resp.body.puzzle_question # None
    /\ lockevent[Len(lockevent)].puzzle_answer = Some(<<"2", "0">>)
    /\ alarm # <<>>

\* C8: a puzzle attempt on a LOCKED lock succeeds iff the answer, stripped,
\* is the same string as the lock's stored secret, stripped (a missing answer
\* counting as the empty string); a lock that stores no secret has nothing an
\* answer can equal
C8_PuzzleIsTrimmedStringEquality ==
    \A payload \in PuzzleAttempts(LockedIds) :
        LET lock == LockOf(lockevent, payload)
            given == IF payload.answer = None THEN <<>>
                     ELSE strip(Get(payload.answer))
        IN  (StatusOf(Call(payload).resp) = "unlocked")
               <=> /\ lock.puzzle_answer # None
                   /\ given = strip(Get(lock.puzzle_answer))

\* C9: a steps attempt on a LOCKED steps lock succeeds iff the step count is
\* at least the stored steps_target, and with steps missing it does what it
\* does with steps=0: same response, same record, same locks
C9_StepsThresholdAndDefault ==
    \A payload \in StepsAttempts(LockedIds) :
        \A lock \in {LockOf(lockevent, payload)} :
            lock.task_type = "steps" =>
               \A r \in {Call(payload)} :
                  /\ (StatusOf(r.resp) = "unlocked")
                        <=> /\ payload.steps # None
                            /\ Get(payload.steps) >= Get(lock.steps_target)
                  /\ StatusOf(r.resp) \in {"unlocked", "try_again"}
                  /\ payload.steps = None =>
                        r = Call([payload EXCEPT !.steps = Some(0)])

\* C9 witness: an attempt with steps missing was answered try_again and is on
\* record as 0 of 30 steps
C9_Witness ==
    /\ req.op = "attempt_unlock"
    /\ req.payload.task_type = "steps"
    /\ req.payload.steps = None
    /\ resp = Ok([status |-> "try_again",
                  detail |-> <<"0", "/", "3", "0", " ", "s", "t", "e", "p", "s">>])
    /\ Len(taskattempt) = 1
    /\ taskattempt[1].details = resp.body.detail
    /\ LockOf(lockevent, req.payload).task_type = "steps"

\* C10: every attempt on a LOCKED lock, whatever the attempt's task_type and
\* the lock's stored type, completes with status unlocked or try_again as the
\* branch of the attempt's own task_type decides, never with an error
C10_MismatchNeverFails ==
    \A payload \in AnyAttempt(LockedIds) :
        \A r \in {Call(payload)} :
        \A lock \in {LockOf(lockevent, payload)} :
            /\ r.resp.code = 200
            /\ StatusOf(r.resp) =
                  IF (IF payload.task_type = "puzzle"
                      THEN puzzle_branch(lock, payload)
                      ELSE IF payload.task_type = "steps"
                      THEN steps_branch(lock, payload)
                      ELSE photo_branch(lock, payload)).success
                  THEN "unlocked" ELSE "try_again"

PhotoAccepted ==
    <<"p", "h", "o", "t", "o", " ", "a", "c", "c", "e", "p", "t", "e", "d">>
PhotoMissing ==
    <<"p", "h", "o", "t", "o", " ", "m", "i", "s", "s", "i", "n", "g">>

PhotoAttempts(lockIds) ==
    Attempts(lockIds, {User1, User2}, "photo",
             {None, Some(<<>>), Some(<<" ">>), Some(Photo), Some(NoneText)},
             AnySteps)

\* C11: a photo attempt on a LOCKED lock succeeds iff its answer is a
\* non-empty string (a missing answer and the empty string both fail); on
\* success it returns unlocked and records "photo accepted", on failure it
\* returns try_again with "photo missing" and records that
C11_PhotoIsNonEmptyAnswer ==
    \A payload \in PhotoAttempts(LockedIds) :
        \A r \in {Call(payload)} :
        \A nonEmpty \in {payload.answer # None /\ Get(payload.answer) # <<>>} :
            /\ Len(r.taskattempt) = Len(taskattempt) + 1
            /\ r.taskattempt[Len(r.taskattempt)].success = nonEmpty
            /\ r.taskattempt[Len(r.taskattempt)].details =
                  IF nonEmpty THEN PhotoAccepted ELSE PhotoMissing
            /\ r.resp = IF nonEmpty
                        THEN Ok([status |-> "unlocked"])
                        ELSE Ok([status |-> "try_again",
                                 detail |-> PhotoMissing])

\* C11 witness: a photo attempt without an answer failed as "photo missing",
\* the next one, with an answer, was accepted and unlocked the lock
C11_Witness ==
    /\ Len(taskattempt) = 2
    /\ taskattempt[1].task_type = "photo"
    /\ ~taskattempt[1].success /\ taskattempt[1].details = PhotoMissing
    /\ taskattempt[2].task_type = "photo"
    /\ taskattempt[2].success /\ taskattempt[2].details = PhotoAccepted
    /\ taskattempt[2].lock_id = taskattempt[1].lock_id
    /\ req.op = "attempt_unlock"
    /\ req.payload.answer = Some(Photo)
    /\ resp = Ok([status |-> "unlocked"])

\* The numbers of 10..99 whose decimal digits stand at q[i], q[i + 1]
Operand(q, i) ==
    {10 * j + k : j \in {x \in 1..9 : Digits[x + 1] = q[i]},
                  k \in {x \in 0..9 : Digits[x + 1] = q[i + 1]}}

\* The task payload a stored LockEvent is to have for its task type
WellFormedLock(d) ==
    IF d.task_type = "puzzle"
    THEN /\ d.puzzle_question # None /\ d.puzzle_answer # None
         /\ d.steps_target = None /\ d.photo_required = None
         /\ \A q \in d.puzzle_question :
               /\ Len(q) = 16
               /\ \E A \in Operand(q, 9), B \in Operand(q, 14) :
                     /\ q = <<"W", "h", "a", "t", " ", "i", "s", " ">>
                              \o IntToStr(A) \o <<" ", "+", " ">>
                              \o IntToStr(B) \o <<"?">>
                     /\ d.puzzle_answer = Some(IntToStr(A + B))
    ELSE IF d.task_type = "steps"
    THEN /\ d.steps_target = Some(30)
         /\ d.puzzle_question = None /\ d.puzzle_answer = None
         /\ d.photo_required = None
    ELSE /\ d.task_type = "photo"
         /\ d.photo_required = Some(TRUE)
         /\ d.puzzle_question = None /\ d.puzzle_answer = None
         /\ d.steps_target = None

\* simulate_lock applied to the current store
Simulated(task_type, lock_minutes, a, b) ==
    simulate_lock(lockevent, clock, User1, None, task_type, lock_minutes, a, b)

\* C13: simulate_lock persists one LockEvent with unlocked=false and the task
\* payload of its type, for every task type, duration and pair of draws, and
\* every stored LockEvent has the payload of its type: a puzzle lock the
\* question "What is A + B?" and the secret str(A + B) of two numbers A, B of
\* 10..99; a steps lock steps_target 30 only; a photo lock photo_required
\* true only
C13_LockPayloadByType ==
    /\ \A i \in DOMAIN lockevent : WellFormedLock(lockevent[i])
    /\ \A task_type \in TaskTypes :
       \A a \in {10, 55, 99}, b \in {10, 45, 99} :
         \A r \in {Simulated(task_type, 30, a, b)} :
            /\ r.resp.code = 200
            /\ Len(r.lockevent) = Len(lockevent) + 1
            /\ SubSeq(r.lockevent, 1, Len(lockevent)) = lockevent
            /\ \A d \in {r.lockevent[Len(r.lockevent)]} :
                  /\ d.unlocked = FALSE
                  /\ d.task_type = task_type
                  /\ WellFormedLock(d)
                  /\ task_type = "puzzle" =>
                        /\ Operand(Get(d.puzzle_question), 9) = {a}
                        /\ Operand(Get(d.puzzle_question), 14) = {b}

\* C13 witness: a puzzle lock asking "What is 10 + 99?" with the secret 109
\* and a steps lock are stored
C13_Witness ==
    /\ \E i \in DOMAIN lockevent :
          /\ lockevent[i].task_type = "puzzle"
          /\ lockevent[i].puzzle_question =
                Some(<<"W", "h", "a", "t", " ", "i", "s", " ", "1", "0",
                       " ", "+", " ", "9", "9", "?">>)
          /\ lockevent[i].puzzle_answer = Some(<<"1", "0", "9">>)
    /\ \E i \in DOMAIN lockevent :
          /\ lockevent[i].task_type = "steps"
          /\ lockevent[i].steps_target = Some(30)
    /\ req.op = "simulate_lock"

\* C14: simulate_lock stores expires_at = time of the request + lock_minutes:
\* for lock_minutes > 0 strictly later than that time, by exactly
\* lock_minutes; a lock_minutes of zero or less is accepted and stored the
\* same way
C14_ExpiryIsNowPlusMinutes ==
    \A task_type \in TaskTypes, lock_minutes \in LockMinutes \cup {1, 1440} :
        \A r \in {Simulated(task_type, lock_minutes, RandLo, RandHi)} :
        \A d \in {r.lockevent[Len(r.lockevent)]} :
            /\ r.resp.code = 200
            /\ Len(r.lockevent) = Len(lockevent) + 1
            /\ d.expires_at = clock + lock_minutes
            /\ r.resp.body.expires_at = [iso |-> clock + lock_minutes]
            /\ lock_minutes > 0 =>
                  /\ d.expires_at > clock
                  /\ d.expires_at - clock = lock_minutes

\* C14 witness: time has passed since the first lock was created; a lock of
\* 30 minutes and a lock of -5 minutes were created at the later time
C14_Witness ==
    /\ clock > 0
    /\ req.op = "simulate_lock"
    /\ \E i \in DOMAIN lockevent : lockevent[i].expires_at = clock + 30
    /\ lockevent[Len(lockevent)].expires_at = clock - 5
    /\ resp.body.expires_at = [iso |-> clock - 5]

\* The documents of a collection that carry user u, counted by position
OfUser(coll, u) == {i \in DOMAIN coll : coll[i].user_id = u}

\* The fraction q is the value n / d
IsRatio(q, n, d) == q[2] > 0 /\ q[1] * d = n * q[2]

\* C15: the insights of a user are total_locks = the number of the user's
\* LockEvents, unlocked = the number of those with unlocked true,
\* success_rate = unlocked / total_locks and avg_attempts_per_lock = (number
\* of TaskAttempts carrying the user_id) / total_locks; with no locks both
\* ratios are 0 and the call succeeds, whatever TaskAttempts carry the user_id
C15_InsightsSummary ==
    \A u \in Users \cup {<<"u", "3">>} :
        \A r \in {morning_insights(lockevent, taskattempt, u)} :
        \A total \in {Cardinality(OfUser(lockevent, u))} :
        \A open \in {Cardinality({i \in OfUser(lockevent, u) :
                                       lockevent[i].unlocked})} :
        \A tried \in {Cardinality(OfUser(taskattempt, u))} :
            /\ r.code = 200
            /\ DOMAIN r.body = {"total_locks", "unlocked", "success_rate",
                                "avg_attempts_per_lock"}
            /\ r.body.total_locks = total
            /\ r.body.unlocked = open
            /\ IF total = 0
               THEN /\ r.body.success_rate = <<0, 1>>
                    /\ r.body.avg_attempts_per_lock = <<0, 1>>
               ELSE /\ IsRatio(r.body.success_rate, open, total)
                    /\ IsRatio(r.body.avg_attempts_per_lock, tried, total)

\* C15 witness: the insights of a user with no lock and with attempts on
\* record were served as zeros, while the other user has an unlocked lock
C15_Witness ==
    /\ req.op = "morning_insights"
    /\ OfUser(lockevent, req.user_id) = {}
    /\ OfUser(taskattempt, req.user_id) # {}
    /\ resp.body.total_locks = 0
    /\ resp.body.success_rate = <<0, 1>>
    /\ resp.body.avg_attempts_per_lock = <<0, 1>>
    /\ \E i \in DOMAIN lockevent : lockevent[i].unlocked

\* Alarm requests of every shape: alarm_time with and without a colon,
\* durations around both limits of the schema
AnyAlarm ==
    [user_id : {User1},
     alarm_label : {None, Some(<<"g", "y", "m">>)},
     alarm_time : {<<"0", "7", ":", "3", "0">>, <<"0", "7", "3", "0">>,
                   <<>>, <<":">>},
     apps : {<<>>},
     lock_duration_minutes : {4, 5, 30, 1440, 1441},
     task_type : {"steps"}]

\* C16: create_alarm answers a request whose alarm_time has no ":" with the
\* 400 error and stores nothing; every stored Alarm has an alarm_time with a
\* ":" and a lock_duration_minutes of 5..1440, and a request that passes both
\* checks is stored as sent; no step of any operation changes or removes a
\* stored Alarm
C16_AlarmsValidatedAndKept ==
    /\ [](/\ \A i \in DOMAIN alarm :
               /\ \E k \in 1..Len(alarm[i].alarm_time) :
                     alarm[i].alarm_time[k] = ":"
               /\ alarm[i].lock_duration_minutes \in 5..1440
          /\ \A payload \in AnyAlarm :
               \A r \in {create_alarm(alarm, payload)} :
                  IF \A k \in 1..Len(payload.alarm_time) :
                        payload.alarm_time[k] # ":"
                  THEN /\ r.resp.code = 400
                       /\ r.alarm = alarm
                  ELSE IF payload.lock_duration_minutes \in 5..1440
                  THEN /\ r.resp.code = 200
                       /\ Len(r.alarm) = Len(alarm) + 1
                       /\ \A k \in DOMAIN payload :
                             r.alarm[Len(r.alarm)][k] = payload[k]
                  ELSE r.alarm = alarm /\ r.resp.code # 200)
    /\ [][/\ Len(alarm') >= Len(alarm)
          /\ \A i \in DOMAIN alarm : alarm'[i] = alarm[i]]_vars

\* C16 witness: with an alarm stored, a request without ":" was answered 400
\* and the stored alarm is as it was
C16_Witness ==
    /\ req.op = "create_alarm"
    /\ resp.code = 400
    /\ Len(alarm) = 1
    /\ alarm[1].alarm_time = <<"0", "7", ":", "3", "0">>
    /\ alarm[1].lock_duration_minutes = 30

\* The lock_id of a TaskAttempt is the text the client sent; it names the
\* LockEvent it resolves to as an ObjectId
Names(text, lock) == IsValidOid(text) /\ ObjectId(text) = lock._id

\* The TaskAttempts of the log ta for a lock, by position, and the successful
\* ones among them
AttemptsOn(ta, lock) == {k \in DOMAIN ta : Names(ta[k].lock_id, lock)}
SuccessesOn(ta, lock) == {k \in AttemptsOn(ta, lock) : ta[k].success}

\* C18: with attempt_unlock calls served one at a time, a LockEvent has at
\* most one TaskAttempt with success true, no TaskAttempt for the lock comes
\* after it in the log, and once the lock is UNLOCKED no step adds a
\* TaskAttempt for it
C18_OneSuccessPerLock ==
    /\ [](\A i \in DOMAIN lockevent :
             /\ Cardinality(SuccessesOn(taskattempt, lockevent[i])) <= 1
             /\ \A k \in SuccessesOn(taskattempt, lockevent[i]) :
                   /\ lockevent[i].unlocked
                   /\ \A j \in AttemptsOn(taskattempt, lockevent[i]) : j <= k)
    /\ [][\/ taskattempt' = taskattempt
          \/ \A i \in DOMAIN lockevent :
                lockevent[i].unlocked =>
                   AttemptsOn(taskattempt', lockevent[i])
                      = AttemptsOn(taskattempt, lockevent[i])]_vars

\* C18 witness: a lock has a failed and then a successful attempt on record,
\* one under its id in capitals, and a later attempt on it was answered
\* already_unlocked; a second lock is stored
C18_Witness ==
    /\ Len(lockevent) = 2
    /\ Cardinality(AttemptsOn(taskattempt, lockevent[1])) = 2
    /\ Cardinality(SuccessesOn(taskattempt, lockevent[1])) = 1
    /\ \E k \in AttemptsOn(taskattempt, lockevent[1]) :
          taskattempt[k].lock_id # OidStr(lockevent[1]._id)
    /\ req.op = "attempt_unlock"
    /\ Names(req.payload.lock_id, lockevent[1])
    /\ req.payload.answer = Some(Photo)
    /\ resp = Ok([status |-> "already_unlocked"])

\* The fields of a LockEvent set at creation
CreationFields ==
    {"_id", "user_id", "apps", "task_type", "expires_at", "alarm_id",
     "puzzle_question", "puzzle_answer", "steps_target", "photo_required"}

\* A passing and a failing attempt of each task type by another user, on
\* every stored lock under its id as stored and in capitals, and on the ids
\* of no lock
FrameAttempts ==
    Submissions(StoredIds \cup {Capitals(id) : id \in StoredIds}, {User2})
    \cup Attempts(LockIds \ StoredIds, {User2}, "photo", {Some(Photo)}, {None})

\* C19: attempt_unlock changes at most the LockEvent its lock_id names, and
\* of that event only unlocked and updated_at; it keeps every TaskAttempt on
\* record as it is; and no step of any operation changes a field a LockEvent
\* got at creation, or changes or removes a TaskAttempt
C19_AttemptFrame ==
    /\ [](\A payload \in FrameAttempts :
             \A r \in {Call(payload)} :
                /\ DOMAIN r.lockevent = DOMAIN lockevent
                /\ \A i \in DOMAIN lockevent :
                      IF Names(payload.lock_id, lockevent[i])
                      THEN /\ DOMAIN lockevent[i] \subseteq DOMAIN r.lockevent[i]
                           /\ \A k \in DOMAIN r.lockevent[i] :
                                 \/ k \in {"unlocked", "updated_at"}
                                 \/ /\ k \in DOMAIN lockevent[i]
                                    /\ r.lockevent[i][k] = lockevent[i][k]
                      ELSE r.lockevent[i] = lockevent[i]
                /\ Len(r.taskattempt) >= Len(taskattempt)
                /\ \A j \in DOMAIN taskattempt :
                      r.taskattempt[j] = taskattempt[j])
    /\ [][/\ Len(lockevent') >= Len(lockevent)
          /\ \A i \in DOMAIN lockevent :
                \A k \in CreationFields : lockevent'[i][k] = lockevent[i][k]
          /\ Len(taskattempt') >= Len(taskattempt)
          /\ \A j \in DOMAIN taskattempt :
                taskattempt'[j] = taskattempt[j]]_vars

\* C19 witness: after a failed attempt, an attempt unlocked the first of two
\* locks and stamped it; the second lock is as created
C19_Witness ==
    /\ Len(lockevent) = 2
    /\ lockevent[1].unlocked
    /\ "updated_at" \in DOMAIN lockevent[1]
    /\ lockevent[1].puzzle_answer = Some(<<"2", "0">>)
    /\ ~lockevent[2].unlocked
    /\ "updated_at" \notin DOMAIN lockevent[2]
    /\ Len(taskattempt) = 2
    /\ req.op = "attempt_unlock"
    /\ resp = Ok([status |-> "unlocked"])

\* C12: nothing guards the transition against a concurrent request.  A
\* request is past its read only if it found unlocked=false; once it has
\* evaluated to success, its next step appends its own TaskAttempt with
\* success true and the step after issues its update and returns unlocked,
\* whatever other requests have done to the lock meanwhile; so two requests
\* on one LOCKED lock can both succeed (the witness)
C12_NoGuardOnTransition ==
    [][\A p \in Workers :
          /\ (inflight[p].pc = "idle" /\ inflight'[p].pc = "attempt_record") =>
                /\ ~LockOf(lockevent, inflight'[p].payload).unlocked
                /\ inflight'[p].ev.success = (inflight'[p].payload.answer
                                                 \notin {None, Some(<<>>)})
          /\ (inflight[p].pc = "attempt_record" /\ inflight[p].ev.success
                    /\ inflight'[p] # inflight[p]) =>
                /\ Len(taskattempt') = Len(taskattempt) + 1
                /\ taskattempt'[Len(taskattempt')].success
                /\ taskattempt'[Len(taskattempt')].lock_id
                       = inflight[p].payload.lock_id
                /\ inflight'[p].pc = "attempt_update"
          /\ (inflight[p].pc = "attempt_update"
                    /\ inflight'[p] # inflight[p]) =>
                /\ inflight'[p] = Idle(Ok([status |-> "unlocked"]))
                /\ resp' = Ok([status |-> "unlocked"])
                /\ LockOf(lockevent', inflight[p].payload).unlocked
                /\ taskattempt' = taskattempt]_vars

\* C12 witness: both workers have returned unlocked for the same lock, which
\* has two TaskAttempts with success true
C12_Witness ==
    /\ \A p \in Workers : inflight[p] = Idle(Ok([status |-> "unlocked"]))
    /\ \E i \in DOMAIN lockevent :
          /\ lockevent[i].unlocked
          /\ Cardinality(SuccessesOn(taskattempt, lockevent[i])) = MaxRequests
          /\ \A k \in DOMAIN taskattempt :
                taskattempt[k].lock_id = OidStr(lockevent[i]._id)

\* C17: in every state, those between the store operations of concurrent
\* requests included, a LockEvent with unlocked true has a TaskAttempt with
\* success true for it; and once a TaskAttempt with success true is on record
\* for a stored lock, the lock is eventually UNLOCKED
C17_RecordBeforeUpdate ==
    /\ [](\A i \in DOMAIN lockevent :
             lockevent[i].unlocked =>
                SuccessesOn(taskattempt, lockevent[i]) # {})
    /\ \A i \in 1..MaxLocks :
          (i \in DOMAIN lockevent
               /\ SuccessesOn(taskattempt, lockevent[i]) # {})
             ~> (i \in DOMAIN lockevent /\ lockevent[i].unlocked)

\* C17 witness: a worker has written its successful attempt and not yet
\* issued its update: the record is in the log and the lock is still LOCKED,
\* while the other worker is serving a request too
C17_Witness ==
    \E p \in Workers :
        /\ inflight[p].pc = "attempt_update"
        /\ ~LockOf(lockevent, inflight[p].payload).unlocked
        /\ SuccessesOn(taskattempt, LockOf(lockevent, inflight[p].payload)) # {}
        /\ \E q \in Workers \ {p} : inflight[q].pc # "idle"

\* C20: every insights response has unlocked <= total_locks and a
\* success_rate of 0 to 1, also when its reads are interleaved with the
\* requests of other workers
C20_UnlockedAtMostTotal ==
    (req.op = "morning_insights" /\ resp.code = 200) =>
        /\ resp.body.unlocked <= resp.body.total_locks
        /\ resp.body.success_rate[1] >= 0
        /\ resp.body.success_rate[1] <= resp.body.success_rate[2]

====
